---- MODULE Spec2Model ----
(***************************************************************************)
(* Model of github_repo_stats.py: the directory walk of                    *)
(* get_language_stats, the exclusion predicate should_exclude_path, the    *)
(* report loop of print_stats and the control flow of main.                *)
(*                                                                         *)
(* Strings that the program inspects character by character (file names,  *)
(* relative paths, glob patterns, extensions) are sequences of            *)
(* one-character strings.  A path is a sequence of names; the scan root    *)
(* is the one-name path <<name>>.                                          *)
(***************************************************************************)
EXTENDS Integers, Sequences, FiniteSets, TLC

\* ------------------------------------------------------------------------
\* Bounds of the model
\* ------------------------------------------------------------------------

\* how many files of one scan may fail to open or to read
MaxFail == 1

\* how many times a caller invokes get_language_stats on the same tree
MaxScans == 2

\* ------------------------------------------------------------------------
\* Names used by the directory tree and the patterns
\* ------------------------------------------------------------------------

n_repo == <<"r", "e", "p", "o">>
n_env == <<"e", "n", "v">>
n_tmp == <<"t", "m", "p">>
n_src == <<"s", "r", "c">>
n_git == <<".", "g", "i", "t">>
n_lib == <<"l", "i", "b">>
n_o == <<"o">>
f_a_py == <<"a", ".", "p", "y">>
f_i_js == <<"i", ".", "j", "s">>
f_r_md == <<"r", ".", "m", "d">>
f_x == <<"x">>
f_b_ts == <<"b", ".", "t", "s">>
f_c_py == <<"c", ".", "p", "y">>
f_d_js == <<"d", ".", "j", "s">>

\* ------------------------------------------------------------------------
\* Static configuration of get_language_stats
\* ------------------------------------------------------------------------

code_extensions ==
    (<<".", "p", "y">> :> "Python")
    @@ (<<".", "j", "s">> :> "JavaScript")
    @@ (<<".", "j", "s", "x">> :> "JavaScript")
    @@ (<<".", "t", "s">> :> "TypeScript")
    @@ (<<".", "t", "s", "x">> :> "TypeScript")
    @@ (<<".", "h", "t", "m", "l">> :> "HTML")
    @@ (<<".", "c", "s", "s">> :> "CSS")
    @@ (<<".", "s", "c", "s", "s">> :> "SCSS")
    @@ (<<".", "s", "a", "s", "s">> :> "SASS")
    @@ (<<".", "j", "a", "v", "a">> :> "Java")
    @@ (<<".", "c">> :> "C")
    @@ (<<".", "c", "p", "p">> :> "C++")
    @@ (<<".", "c", "s">> :> "C#")
    @@ (<<".", "g", "o">> :> "Go")
    @@ (<<".", "r", "b">> :> "Ruby")
    @@ (<<".", "p", "h", "p">> :> "PHP")
    @@ (<<".", "s", "w", "i", "f", "t">> :> "Swift")
    @@ (<<".", "k", "t">> :> "Kotlin")
    @@ (<<".", "r", "s">> :> "Rust")
    @@ (<<".", "s", "h">> :> "Shell")
    @@ (<<".", "j", "s", "o", "n">> :> "JSON")
    @@ (<<".", "x", "m", "l">> :> "XML")
    @@ (<<".", "y", "m", "l">> :> "YAML")
    @@ (<<".", "y", "a", "m", "l">> :> "YAML")

doc_extensions ==
    (<<".", "m", "d">> :> "Markdown")
    @@ (<<".", "r", "s", "t">> :> "ReStructuredText")
    @@ (<<".", "t", "x", "t">> :> "Text")

\* a faulty variant: asking for documentation replaces the code tier
language_extensions_docs_only(include_docs) ==
    IF include_docs THEN doc_extensions ELSE code_extensions

\* language_extensions = code_extensions.copy(); update(doc_extensions)
\* (dict.update: the updating dictionary wins on a common key)
language_extensions(include_docs) ==
    IF include_docs THEN doc_extensions @@ code_extensions ELSE code_extensions

exclude_dirs ==
    { n_git,
      <<"n", "o", "d", "e", "_", "m", "o", "d", "u", "l", "e", "s">>,
      <<"v", "e", "n", "v">>,
      n_env,
      <<"_", "_", "p", "y", "c", "a", "c", "h", "e", "_", "_">>,
      <<"d", "i", "s", "t">>,
      <<"b", "u", "i", "l", "d">> }

\* ------------------------------------------------------------------------
\* Path and pattern functions
\* ------------------------------------------------------------------------

RECURSIVE JoinSlash(_)
\* "/".join(names)
JoinSlash(names) ==
    IF Len(names) = 0 THEN <<>>
    ELSE IF Len(names) = 1 THEN names[1]
    ELSE names[1] \o <<"/">> \o JoinSlash(Tail(names))

\* os.path.join(root, name)
join(root, name) == Append(root, name)

\* a faulty variant: the base name instead of the path relative to the root
relpath_basename(path, start) == path[Len(path)]

\* os.path.relpath(path, start), for a path at or below start
relpath(path, start) ==
    LET rest == SubSeq(path, Len(start) + 1, Len(path))
    IN  IF rest = <<>> THEN <<".">> ELSE JoinSlash(rest)

\* os.path.splitext(name)[1]: from the last dot on, unless only dots precede it
splitext(name) ==
    LET dots == {i \in 1..Len(name) : name[i] = "."}
    IN  IF dots = {} THEN <<>>
        ELSE LET last == CHOOSE i \in dots : \A j \in dots : j <= i
             IN  IF \E k \in 1..(last - 1) : name[k] # "."
                 THEN SubSeq(name, last, Len(name))
                 ELSE <<>>

\* fnmatch.translate's scan for the "]" that closes a class opened just before
\* rest: an optional "!", then an optional "]", then up to the next "]".
\* 0 when the class is not closed (the "[" is then a literal).
ClassEnd(rest) ==
    LET k1 == IF Len(rest) >= 1 /\ rest[1] = "!" THEN 2 ELSE 1
        k2 == IF Len(rest) >= k1 /\ rest[k1] = "]" THEN k1 + 1 ELSE k1
        closing == {j \in k2..Len(rest) : rest[j] = "]"}
    IN  IF closing = {} THEN 0
        ELSE CHOOSE j \in closing : \A i \in closing : j <= i

RECURSIVE fnmatch(_, _)
\* fnmatch.fnmatch(name, pat) on POSIX: the whole name against the pattern,
\* "*" any run of characters ("/" included), "?" any one character,
\* "[seq]" / "[!seq]" one character in / not in seq (no ranges: "-" is not
\* in the alphabet of the modelled patterns)
fnmatch(name, pat) ==
    IF pat = <<>> THEN name = <<>>
    ELSE
        LET c == Head(pat)
            rest == Tail(pat)
        IN  IF c = "*" THEN
                fnmatch(name, rest) \/ (name # <<>> /\ fnmatch(Tail(name), pat))
            ELSE IF c = "?" THEN
                name # <<>> /\ fnmatch(Tail(name), rest)
            ELSE IF c = "[" /\ ClassEnd(rest) # 0 THEN
                LET j == ClassEnd(rest)
                    stuff == SubSeq(rest, 1, j - 1)
                    neg == Head(stuff) = "!"
                    body == IF neg THEN Tail(stuff) ELSE stuff
                    members == {body[i] : i \in 1..Len(body)}
                IN  /\ name # <<>>
                    /\ (Head(name) \in members) # neg
                    /\ fnmatch(Tail(name), SubSeq(rest, j + 1, Len(rest)))
            ELSE
                name # <<>> /\ Head(name) = c /\ fnmatch(Tail(name), rest)

\* exclude_patterns is None (absent) or a list of patterns
NoPatterns == [absent |-> TRUE, pats |-> <<>>]

Patterns(ps) == [absent |-> FALSE, pats |-> ps]

\* a faulty variant: the pattern is matched against the base name
should_exclude_basename(path, exclude_patterns, repo_dir) ==
    /\ ~(exclude_patterns.absent \/ exclude_patterns.pats = <<>>)
    /\ \E i \in 1..Len(exclude_patterns.pats) :
            fnmatch(path[Len(path)], exclude_patterns.pats[i])

should_exclude_path(path, exclude_patterns, repo_dir) ==
    IF exclude_patterns.absent \/ exclude_patterns.pats = <<>> THEN FALSE
    ELSE LET rel_path == relpath(path, repo_dir)
         IN  \E i \in 1..Len(exclude_patterns.pats) :
                fnmatch(rel_path, exclude_patterns.pats[i])

\* ------------------------------------------------------------------------
\* The directory tree that is scanned (what os.walk, open and read see)
\* ------------------------------------------------------------------------

\* the listing of every directory, by its path below the root
Tree ==
    (<<>> :> [dirs |-> <<n_src, n_git>>, files |-> <<f_a_py, f_i_js, f_r_md, f_x>>])
    @@ (<<n_src>> :> [dirs |-> <<n_lib>>, files |-> <<f_a_py>>])
    @@ (<<n_src, n_lib>> :> [dirs |-> <<>>, files |-> <<f_b_ts>>])
    @@ (<<n_git>> :> [dirs |-> <<n_o>>, files |-> <<f_c_py>>])
    @@ (<<n_git, n_o>> :> [dirs |-> <<>>, files |-> <<f_d_js>>])

\* the number of lines of every file, by its path below the root
FileLines ==
    (<<f_a_py>> :> 2)
    @@ (<<f_i_js>> :> 0)
    @@ (<<f_r_md>> :> 1)
    @@ (<<f_x>> :> 4)
    @@ (<<n_src, f_a_py>> :> 1)
    @@ (<<n_src, n_lib, f_b_ts>> :> 3)
    @@ (<<n_git, f_c_py>> :> 3)
    @@ (<<n_git, n_o, f_d_js>> :> 2)

\* the files that may be unreadable in a scan
FailCandidates ==
    {<<f_a_py>>, <<f_r_md>>, <<n_src, f_a_py>>}

\* which files fail at open() and which fail while their lines are read
FailChoices ==
    { [open |-> o, read |-> r] :
        <<o, r>> \in { c \in (SUBSET FailCandidates) \X (SUBSET FailCandidates) :
                        /\ c[1] \cap c[2] = {}
                        /\ Cardinality(c[1] \cup c[2]) <= MaxFail } }

\* the part of a path below the scan root (a path is <<root name>> \o below)
Below(path) == Tail(path)

\* sum(1 for _ in f)
CountLinesOf(path) == FileLines[Below(path)]

\* ------------------------------------------------------------------------
\* Inputs
\* ------------------------------------------------------------------------

p_star_py == <<"*", ".", "p", "y">>
p_dot == <<".">>
p_src_all == <<"s", "r", "c", "/", "*">>
p_class == <<"[", "a", "i", "]", ".", "*">>
p_q_md == <<"?", ".", "m", "d">>

\* the -e options of the first scan
PatternChoices ==
    { NoPatterns, Patterns(<<>>), Patterns(<<p_star_py>>),
      Patterns(<<p_src_all, p_q_md>>) }

\* patterns a later scan of the same tree adds
AddPool == { f_a_py, n_src, p_dot, p_class }

\* repo_path arguments of main: a local directory (by name and state) or a URL
\* (an optional "@" prefix, the host, the "/"-separated segments of the path)
LocalArgs ==
    { [local |-> TRUE, name |-> n, state |-> s, at |-> FALSE, netloc |-> "",
       segments |-> <<n>>] :
        <<n, s>> \in { <<n_repo, "ok">>, <<n_env, "ok">>, <<n_repo, "unreadable">>,
                       <<n_repo, "missing">> } }

UrlArgs ==
    { [local |-> FALSE, name |-> n_tmp, state |-> "missing", at |-> a,
       netloc |-> h, segments |-> sg] :
        <<a, h, sg>> \in { <<FALSE, "github.com", << <<>>, <<"u">>, <<"r">> >> >>,
                           <<TRUE, "github.com", << <<>>, <<"u">>, <<"r">> >> >>,
                           <<FALSE, "gitlab.com", << <<>>, <<"u">>, <<"r">> >> >>,
                           <<FALSE, "github.com", << <<>>, <<"u">>, <<>> >> >> } }

\* ------------------------------------------------------------------------
\* Dictionaries
\* ------------------------------------------------------------------------

\* stats is a dict in insertion order: a sequence of [k, v]
Keys(d) == {d[i].k : i \in 1..Len(d)}

Get(d, key) == d[CHOOSE i \in 1..Len(d) : d[i].k = key].v

\* stats[language] += line_count on a defaultdict(int)
AddTo(d, key, n) ==
    IF key \in Keys(d)
    THEN [i \in 1..Len(d) |-> IF d[i].k = key THEN [k |-> key, v |-> d[i].v + n] ELSE d[i]]
    ELSE Append(d, [k |-> key, v |-> n])

RECURSIVE SumValues(_)
SumValues(d) == IF d = <<>> THEN 0 ELSE Head(d).v + SumValues(Tail(d))

EmptyDict == [x \in {} |-> 0]

\* a faulty variant: the entry is keyed by the file's base name
SetFileStatBasename(fs, language, file_path, repo_dir, n) ==
    LET key == relpath_basename(file_path, repo_dir)
        inner == IF language \in DOMAIN fs THEN fs[language] ELSE EmptyDict
        inner2 == [x \in DOMAIN inner \cup {key} |-> IF x = key THEN n ELSE inner[x]]
    IN  [l \in DOMAIN fs \cup {language} |-> IF l = language THEN inner2 ELSE fs[l]]

\* file_stats[language][rel_path] = line_count on a defaultdict(dict)
SetFileStat(fs, language, file_path, repo_dir, n) ==
    LET key == relpath(file_path, repo_dir)
        inner == IF language \in DOMAIN fs THEN fs[language] ELSE EmptyDict
        inner2 == [x \in DOMAIN inner \cup {key} |-> IF x = key THEN n ELSE inner[x]]
    IN  [l \in DOMAIN fs \cup {language} |-> IF l = language THEN inner2 ELSE fs[l]]

RECURSIVE SumOver(_, _)
\* the sum of f over the finite set S of its arguments
SumOver(f, S) ==
    IF S = {} THEN 0
    ELSE LET x == CHOOSE y \in S : TRUE IN f[x] + SumOver(f, S \ {x})

\* sorted(stats.items(), key=lambda x: x[1], reverse=True): stable, descending
InsertDesc(sorted, item) ==
    LET k == Cardinality({i \in 1..Len(sorted) : sorted[i].v >= item.v})
    IN  SubSeq(sorted, 1, k) \o <<item>> \o SubSeq(sorted, k + 1, Len(sorted))

RECURSIVE SortedDescFrom(_, _)
SortedDescFrom(acc, d) ==
    IF d = <<>> THEN acc ELSE SortedDescFrom(InsertDesc(acc, Head(d)), Tail(d))

sorted_stats_of(d) == SortedDescFrom(<<>>, d)

\* ------------------------------------------------------------------------
\* State
\* ------------------------------------------------------------------------

VARIABLES
    mode,           \* "main": the script is run; "call": get_language_stats is called
    args,           \* main: [repo_path, is_local]
    fs,             \* the file system: [rootstate, fail] of the scanned directory
    cfg,            \* the arguments of the scan: [repo_dir, verbose, include_docs, exclude_patterns]
    pc,             \* position in get_language_stats
    langext,        \* language_extensions
    stats,          \* stats
    total_lines,    \* total_lines
    file_stats,     \* file_stats
    stack,          \* os.walk: the directories still to list
    cur_root,       \* root of the current os.walk item
    dirs,           \* dirs of the current os.walk item
    files_left,     \* the files of the current item not yet iterated
    file_path,      \* file_path
    line_count,     \* line_count
    handles,        \* the file objects that are open
    enumerated,     \* history: files that os.walk has yielded
    opened,         \* history: files on which open() was called
    counted,        \* history: files whose line count was added to stats
    checked,        \* history: directories put through the test of line 115, in order
    before,         \* history: the accumulators when the current file was taken up
    results,        \* what the scans so far returned, with their arguments
    mpc,            \* position in main
    temp_dirs,      \* the temporary directories that exist
    made_temp,      \* history: number of mkdtemp calls
    cloned,         \* history: number of git clone runs
    validated,      \* history: validate_github_url returned True
    exc,            \* the exception that is propagating in main, or "none"
    exit_code,      \* exit status of the process, -1 while it runs
    sorted_stats,   \* print_stats: sorted_stats
    print_i         \* print_stats: index of the language being printed

vars ==
    << mode, args, fs, cfg, pc, langext, stats, total_lines, file_stats, stack,
       cur_root, dirs, files_left, file_path, line_count, handles, enumerated,
       opened, counted, checked, before, results, mpc, temp_dirs, made_temp, cloned,
       validated, exc, exit_code, sorted_stats, print_i >>

scan_vars ==
    << pc, langext, stats, total_lines, file_stats, stack, cur_root, dirs,
       files_left, file_path, line_count, handles, enumerated, opened, counted,
       checked, before >>

main_vars ==
    << mpc, temp_dirs, made_temp, cloned, validated, exc, exit_code,
       sorted_stats, print_i >>

NoArgs == [repo_path |-> [local |-> TRUE, name |-> <<>>, state |-> "missing",
                          at |-> FALSE, netloc |-> "", segments |-> <<>>],
           is_local |-> FALSE]

Options ==
    { [verbose |-> v, include_docs |-> d, exclude_patterns |-> e] :
        <<v, d, e>> \in BOOLEAN \X BOOLEAN \X PatternChoices }

Accumulators(st, total, fstats) ==
    [stats |-> st, total_lines |-> total, file_stats |-> fstats]

ScanIdle ==
    /\ pc = "idle"
    /\ langext = code_extensions
    /\ stats = <<>>
    /\ total_lines = 0
    /\ file_stats = EmptyDict
    /\ stack = <<>>
    /\ cur_root = <<>>
    /\ dirs = <<>>
    /\ files_left = <<>>
    /\ file_path = <<>>
    /\ line_count = 0
    /\ handles = {}
    /\ enumerated = {}
    /\ opened = {}
    /\ counted = {}
    /\ checked = <<>>
    /\ before = Accumulators(<<>>, 0, EmptyDict)

MainIdle(start) ==
    /\ mpc = start
    /\ temp_dirs = {}
    /\ made_temp = 0
    /\ cloned = 0
    /\ validated = FALSE
    /\ exc = "none"
    /\ exit_code = -1
    /\ sorted_stats = <<>>
    /\ print_i = 0

\* a caller is about to call get_language_stats(repo_dir, ...) on a directory
\* that is readable, unreadable or missing
InitCall ==
    /\ mode = "call"
    /\ args = NoArgs
    /\ \E st \in {"ok", "unreadable", "missing"}, o \in Options, f \in FailChoices :
            /\ fs = [rootstate |-> st, fail |-> f]
            /\ cfg = [repo_dir |-> <<n_repo>>, verbose |-> o.verbose,
                      include_docs |-> o.include_docs,
                      exclude_patterns |-> o.exclude_patterns]
    /\ MainIdle("none")

\* the script is started with its command line parsed (lines 187-203)
InitMain ==
    /\ mode = "main"
    /\ \E rp \in LocalArgs \cup UrlArgs, l \in BOOLEAN, o \in Options, f \in FailChoices :
            /\ args = [repo_path |-> rp, is_local |-> l]
            /\ fs = [rootstate |-> rp.state, fail |-> f]
            /\ cfg = [repo_dir |-> <<>>, verbose |-> o.verbose,
                      include_docs |-> o.include_docs,
                      exclude_patterns |-> o.exclude_patterns]
    /\ MainIdle("start")

Init ==
    /\ results = <<>>
    /\ ScanIdle
    /\ (InitCall \/ InitMain)

\* ------------------------------------------------------------------------
\* get_language_stats
\* ------------------------------------------------------------------------

\* os.scandir(path) succeeds: the root is listed only when it exists and is
\* readable (a freshly cloned temporary directory is); the rest of the tree is
scandir_ok(path) ==
    path = cfg.repo_dir => (fs.rootstate = "ok" \/ path = <<n_tmp>>)

\* lines 63-111: the effective extension map and the empty accumulators
Enter(repo_dir) ==
    /\ cfg' = [cfg EXCEPT !.repo_dir = repo_dir]
    /\ pc' = "walk"
    /\ langext' = language_extensions(cfg.include_docs)
    /\ stats' = <<>>
    /\ total_lines' = 0
    /\ file_stats' = EmptyDict
    /\ stack' = <<repo_dir>>
    /\ cur_root' = <<>>
    /\ dirs' = <<>>
    /\ files_left' = <<>>
    /\ file_path' = <<>>
    /\ line_count' = 0
    /\ handles' = {}
    /\ enumerated' = {}
    /\ opened' = {}
    /\ counted' = {}
    /\ checked' = <<>>
    /\ before' = Accumulators(<<>>, 0, EmptyDict)

\* a direct call of get_language_stats
Call ==
    /\ mode = "call"
    /\ pc = "idle"
    /\ Enter(cfg.repo_dir)
    /\ UNCHANGED << mode, args, fs, results, main_vars >>

\* line 113, os.walk: the next directory is listed and yielded; a directory
\* that cannot be listed is skipped without an error (onerror is None)
WalkNext ==
    /\ pc = "walk"
    /\ stack # <<>>
    /\ LET top == Head(stack)
       IN  IF scandir_ok(top)
           THEN /\ cur_root' = top
                /\ dirs' = Tree[Below(top)].dirs
                /\ files_left' = Tree[Below(top)].files
                /\ enumerated' = enumerated \cup
                        {join(top, Tree[Below(top)].files[i]) :
                            i \in 1..Len(Tree[Below(top)].files)}
                /\ stack' = Tail(stack)
                /\ pc' = "filter"
           ELSE /\ stack' = Tail(stack)
                /\ UNCHANGED << cur_root, dirs, files_left, enumerated, pc >>
    /\ UNCHANGED << mode, args, fs, cfg, langext, stats, total_lines, file_stats,
                    file_path, line_count, handles, opened, counted, checked, before,
                    results, main_vars >>

\* a faulty variant: no directory is pruned
keep_dir_all(root, d) == TRUE

\* the test of line 115 on the directory d of the current item
keep_dir(root, d) ==
    /\ d \notin exclude_dirs
    /\ ~should_exclude_path(join(root, d), cfg.exclude_patterns, cfg.repo_dir)

\* line 115: dirs[:] = [d for d in dirs if ...]
FilterDirs ==
    /\ pc = "filter"
    /\ dirs' = SelectSeq(dirs, LAMBDA d : keep_dir(cur_root, d))
    /\ checked' = checked \o [i \in 1..Len(dirs) |-> join(cur_root, dirs[i])]
    /\ pc' = "files"
    /\ UNCHANGED << mode, args, fs, cfg, langext, stats, total_lines, file_stats,
                    stack, cur_root, files_left, file_path, line_count, handles,
                    enumerated, opened, counted, before, results, main_vars >>

\* lines 117-118: the next file of the item
NextFile ==
    /\ pc = "files"
    /\ files_left # <<>>
    /\ file_path' = join(cur_root, Head(files_left))
    /\ files_left' = Tail(files_left)
    /\ pc' = "exclude"
    /\ before' = Accumulators(stats, total_lines, file_stats)
    /\ UNCHANGED << mode, args, fs, cfg, langext, stats, total_lines, file_stats,
                    stack, cur_root, dirs, line_count, handles, enumerated,
                    opened, counted, checked, results, main_vars >>

\* the loop over files ends; os.walk resumes and will descend into what is
\* left in dirs, in order, before the directories it already had to list
EndFiles ==
    /\ pc = "files"
    /\ files_left = <<>>
    /\ stack' = [i \in 1..Len(dirs) |-> join(cur_root, dirs[i])] \o stack
    /\ pc' = "walk"
    /\ UNCHANGED << mode, args, fs, cfg, langext, stats, total_lines, file_stats,
                    cur_root, dirs, files_left, file_path, line_count, handles,
                    enumerated, opened, counted, checked, before, results, main_vars >>

\* lines 121-122
CheckExclude ==
    /\ pc = "exclude"
    /\ pc' = IF should_exclude_path(file_path, cfg.exclude_patterns, cfg.repo_dir)
             THEN "files" ELSE "ext"
    /\ UNCHANGED << mode, args, fs, cfg, langext, stats, total_lines, file_stats,
                    stack, cur_root, dirs, files_left, file_path, line_count,
                    handles, enumerated, opened, counted, checked, before, results,
                    main_vars >>

\* lines 124-126
CheckExt ==
    /\ pc = "ext"
    /\ pc' = IF splitext(file_path[Len(file_path)]) \in DOMAIN langext
             THEN "open" ELSE "files"
    /\ UNCHANGED << mode, args, fs, cfg, langext, stats, total_lines, file_stats,
                    stack, cur_root, dirs, files_left, file_path, line_count,
                    handles, enumerated, opened, counted, checked, before, results,
                    main_vars >>

\* line 128: open() returns a file object or raises
OpenFile ==
    /\ pc = "open"
    /\ opened' = opened \cup {file_path}
    /\ IF Below(file_path) \in fs.fail.open
       THEN /\ pc' = "except"
            /\ UNCHANGED handles
       ELSE /\ pc' = "count"
            /\ handles' = handles \cup {file_path}
    /\ UNCHANGED << mode, args, fs, cfg, langext, stats, total_lines, file_stats,
                    stack, cur_root, dirs, files_left, file_path, line_count,
                    enumerated, counted, checked, before, results, main_vars >>

\* a faulty variant: the with statement's exit leaves the file open
with_exit_leak(hs, path) == hs

\* the with statement's exit closes the file, on a normal exit and on an exception
with_exit(hs, path) == hs \ {path}

\* line 129: the lines are counted, or reading raises and the with statement
\* is left through its exit
CountLines ==
    /\ pc = "count"
    /\ IF Below(file_path) \in fs.fail.read
       THEN /\ handles' = with_exit(handles, file_path)
            /\ pc' = "except"
            /\ UNCHANGED line_count
       ELSE /\ line_count' = CountLinesOf(file_path)
            /\ pc' = "acc_stats"
            /\ UNCHANGED handles
    /\ UNCHANGED << mode, args, fs, cfg, langext, stats, total_lines, file_stats,
                    stack, cur_root, dirs, files_left, file_path, enumerated,
                    opened, counted, checked, before, results, main_vars >>

language_of(path) == langext[splitext(path[Len(path)])]

\* lines 130-131
AccStats ==
    /\ pc = "acc_stats"
    /\ stats' = AddTo(stats, language_of(file_path), line_count)
    /\ counted' = counted \cup {file_path}
    /\ pc' = "acc_total"
    /\ UNCHANGED << mode, args, fs, cfg, langext, total_lines, file_stats, stack,
                    cur_root, dirs, files_left, file_path, line_count, handles,
                    enumerated, opened, checked, before, results, main_vars >>

\* a faulty variant: the grand total counts the file, not its lines
add_total_one(total, n) == total + 1

\* total_lines += line_count
add_total(total, n) == total + n

\* line 132
AccTotal ==
    /\ pc = "acc_total"
    /\ total_lines' = add_total(total_lines, line_count)
    /\ pc' = IF cfg.verbose THEN "record" ELSE "close"
    /\ UNCHANGED << mode, args, fs, cfg, langext, stats, file_stats, stack,
                    cur_root, dirs, files_left, file_path, line_count, handles,
                    enumerated, opened, counted, checked, before, results, main_vars >>

\* lines 134-137
Record ==
    /\ pc = "record"
    /\ file_stats' = SetFileStat(file_stats, language_of(file_path), file_path,
                                 cfg.repo_dir, line_count)
    /\ pc' = "close"
    /\ UNCHANGED << mode, args, fs, cfg, langext, stats, total_lines, stack,
                    cur_root, dirs, files_left, file_path, line_count, handles,
                    enumerated, opened, counted, checked, before, results, main_vars >>

\* the end of the with block of line 128
CloseFile ==
    /\ pc = "close"
    /\ handles' = with_exit(handles, file_path)
    /\ pc' = "files"
    /\ UNCHANGED << mode, args, fs, cfg, langext, stats, total_lines, file_stats,
                    stack, cur_root, dirs, files_left, file_path, line_count,
                    enumerated, opened, counted, checked, before, results, main_vars >>

\* a faulty variant: the handler records an empty count for the file
on_error_zero(d, language) == AddTo(d, language, 0)

\* lines 138-140: the handler changes nothing
on_error(d, language) == d

Except ==
    /\ pc = "except"
    /\ stats' = on_error(stats, language_of(file_path))
    /\ pc' = "files"
    /\ UNCHANGED << mode, args, fs, cfg, langext, total_lines, file_stats, stack,
                    cur_root, dirs, files_left, file_path, line_count, handles,
                    enumerated, opened, counted, checked, before, results, main_vars >>

Snapshot ==
    [cfg |-> cfg, stats |-> stats, total_lines |-> total_lines,
     file_stats |-> file_stats, counted |-> counted]

\* lines 142-144: the walk is exhausted and the function returns
Return ==
    /\ pc = "walk"
    /\ stack = <<>>
    /\ pc' = "returned"
    /\ results' = Append(results, Snapshot)
    /\ mpc' = IF mode = "main" THEN "print" ELSE mpc
    /\ UNCHANGED << mode, args, fs, cfg, langext, stats, total_lines, file_stats,
                    stack, cur_root, dirs, files_left, file_path, line_count,
                    handles, enumerated, opened, counted, checked, before, temp_dirs,
                    made_temp, cloned, validated, exc, exit_code, sorted_stats,
                    print_i >>

\* the caller scans the same tree again, now with documentation files
RescanDocs ==
    /\ mode = "call"
    /\ pc = "returned"
    /\ Len(results) < MaxScans
    /\ ~cfg.include_docs
    /\ cfg' = [cfg EXCEPT !.include_docs = TRUE]
    /\ pc' = "idle"
    /\ UNCHANGED << mode, args, fs, langext, stats, total_lines, file_stats,
                    stack, cur_root, dirs, files_left, file_path, line_count,
                    handles, enumerated, opened, counted, checked, before, results,
                    main_vars >>

\* the caller scans the same tree again, with one more exclusion pattern
RescanPattern ==
    /\ mode = "call"
    /\ pc = "returned"
    /\ Len(results) < MaxScans
    /\ \E q \in AddPool :
        cfg' = [cfg EXCEPT !.exclude_patterns =
                    Patterns(Append(cfg.exclude_patterns.pats, q))]
    /\ pc' = "idle"
    /\ UNCHANGED << mode, args, fs, langext, stats, total_lines, file_stats,
                    stack, cur_root, dirs, files_left, file_path, line_count,
                    handles, enumerated, opened, counted, checked, before, results,
                    main_vars >>

\* ------------------------------------------------------------------------
\* main and print_stats
\* ------------------------------------------------------------------------

\* os.path.isdir(path)
is_local_path(p) == p.local /\ p.state # "missing"

\* urlparse(url): a string that starts with "@" has no scheme and no netloc
urlparse(p) == [netloc |-> IF p.at THEN "" ELSE p.netloc, path |-> p.segments]

validate_github_url(p) ==
    LET parsed_url == urlparse(p)
        path_parts == SelectSeq(parsed_url.path, LAMBDA part : part # <<>>)
    IN  IF parsed_url.netloc # "github.com" THEN FALSE
        ELSE IF Len(path_parts) < 2 THEN FALSE
        ELSE TRUE

\* lines 206-213
MainDispatch ==
    /\ mpc = "start"
    /\ IF args.is_local \/ is_local_path(args.repo_path)
       THEN /\ args' = [args EXCEPT !.is_local = TRUE]
            /\ IF ~is_local_path(args.repo_path)
               THEN mpc' = "exited" /\ exit_code' = 1
               ELSE mpc' = "local_scan" /\ UNCHANGED exit_code
       ELSE /\ mpc' = "validate"
            /\ UNCHANGED << args, exit_code >>
    /\ UNCHANGED << mode, fs, cfg, scan_vars, results, temp_dirs, made_temp,
                    cloned, validated, exc, sorted_stats, print_i >>

\* lines 230-236
MainValidate ==
    /\ mpc = "validate"
    /\ LET stripped == [args.repo_path EXCEPT !.at = FALSE]
       IN  /\ args' = [args EXCEPT !.repo_path = stripped]
           /\ validated' = validate_github_url(stripped)
           /\ IF validate_github_url(stripped)
              THEN mpc' = "mkdtemp" /\ UNCHANGED exit_code
              ELSE mpc' = "exited" /\ exit_code' = 1
    /\ UNCHANGED << mode, fs, cfg, scan_vars, results, temp_dirs, made_temp,
                    cloned, exc, sorted_stats, print_i >>

\* line 239
MainMkdtemp ==
    /\ mpc = "mkdtemp"
    /\ temp_dirs' = temp_dirs \cup {<<n_tmp>>}
    /\ made_temp' = made_temp + 1
    /\ mpc' = "clone"
    /\ UNCHANGED << mode, args, fs, cfg, scan_vars, results, cloned, validated,
                    exc, exit_code, sorted_stats, print_i >>

\* lines 242-244, clone_repository: git clone succeeds, or fails and main
\* raises SystemExit(1) inside the try block
MainClone ==
    /\ mpc = "clone"
    /\ cloned' = cloned + 1
    /\ \E ok \in BOOLEAN :
        IF ok THEN mpc' = "remote_scan" /\ UNCHANGED exc
        ELSE mpc' = "finally" /\ exc' = "SystemExit"
    /\ UNCHANGED << mode, args, fs, cfg, scan_vars, results, temp_dirs,
                    made_temp, validated, exit_code, sorted_stats, print_i >>

\* lines 221-225 and 254-258: main calls get_language_stats
MainScan ==
    /\ mpc \in {"local_scan", "remote_scan"}
    /\ Enter(IF mpc = "local_scan" THEN <<args.repo_path.name>> ELSE <<n_tmp>>)
    /\ mpc' = "scanning"
    /\ UNCHANGED << mode, args, fs, results, temp_dirs, made_temp, cloned,
                    validated, exc, exit_code, sorted_stats, print_i >>

\* where main goes when print_stats is left, normally or by the exception e:
\* the local branch ends the process, the remote branch runs its finally block
AfterPrint(e) ==
    /\ exc' = e
    /\ IF args.is_local
       THEN mpc' = "exited" /\ exit_code' = (IF e = "none" THEN 0 ELSE 1)
       ELSE mpc' = "finally" /\ UNCHANGED exit_code

\* lines 147-162
PrintHeader ==
    /\ mpc = "print"
    /\ IF total_lines > 0
       THEN /\ sorted_stats' = sorted_stats_of(stats)
            /\ print_i' = 1
            /\ mpc' = "print_loop"
            /\ UNCHANGED << exc, exit_code >>
       ELSE /\ AfterPrint("none")
            /\ UNCHANGED << sorted_stats, print_i >>
    /\ UNCHANGED << mode, args, fs, cfg, scan_vars, results, temp_dirs,
                    made_temp, cloned, validated >>

\* one iteration of the loop of line 164 divides by zero: lines / total_lines
\* (line 165), or file_lines / lines for a file of the language (line 175)
divides_by_zero(lines, total, verbose, fstats, language) ==
    \/ total = 0
    \/ /\ verbose
       /\ language \in DOMAIN fstats
       /\ DOMAIN fstats[language] # {}
       /\ lines = 0

\* lines 164-183, one language
PrintLanguage ==
    /\ mpc = "print_loop"
    /\ print_i <= Len(sorted_stats)
    /\ IF divides_by_zero(sorted_stats[print_i].v, total_lines, cfg.verbose,
                          file_stats, sorted_stats[print_i].k)
       THEN /\ AfterPrint("ZeroDivisionError")
            /\ UNCHANGED print_i
       ELSE /\ print_i' = print_i + 1
            /\ UNCHANGED << mpc, exc, exit_code >>
    /\ UNCHANGED << mode, args, fs, cfg, scan_vars, results, temp_dirs,
                    made_temp, cloned, validated, sorted_stats >>

\* the loop of line 164 is exhausted and print_stats returns
PrintDone ==
    /\ mpc = "print_loop"
    /\ print_i > Len(sorted_stats)
    /\ AfterPrint("none")
    /\ UNCHANGED << mode, args, fs, cfg, scan_vars, results, temp_dirs,
                    made_temp, cloned, validated, sorted_stats, print_i >>

\* a faulty variant: the clean-up removes nothing
rmtree_nothing(ds, d) == ds

\* shutil.rmtree(temp_dir, ignore_errors=True)
rmtree(ds, d) == ds \ {d}

\* lines 261-264, then the process ends (with the pending exception, if any)
MainFinally ==
    /\ mpc = "finally"
    /\ temp_dirs' = rmtree(temp_dirs, <<n_tmp>>)
    /\ mpc' = "exited"
    /\ exit_code' = (IF exc = "none" THEN 0 ELSE 1)
    /\ UNCHANGED << mode, args, fs, cfg, scan_vars, results, made_temp, cloned,
                    validated, exc, sorted_stats, print_i >>

\* ------------------------------------------------------------------------
\* Specification
\* ------------------------------------------------------------------------

Next ==
    \/ Call
    \/ WalkNext
    \/ FilterDirs
    \/ NextFile
    \/ EndFiles
    \/ CheckExclude
    \/ CheckExt
    \/ OpenFile
    \/ CountLines
    \/ AccStats
    \/ AccTotal
    \/ Record
    \/ CloseFile
    \/ Except
    \/ Return
    \/ RescanDocs
    \/ RescanPattern
    \/ MainDispatch
    \/ MainValidate
    \/ MainMkdtemp
    \/ MainClone
    \/ MainScan
    \/ PrintHeader
    \/ PrintLanguage
    \/ PrintDone
    \/ MainFinally

Spec == Init /\ [][Next]_vars

\* ------------------------------------------------------------------------
\* Vocabulary of the properties
\* ------------------------------------------------------------------------

Range(q) == {q[i] : i \in 1..Len(q)}

\* the language a scan with the arguments c attributes to the file f
LangOf(c, f) == language_extensions(c.include_docs)[splitext(f[Len(f)])]

\* the key under which a scan with the arguments c records the file f
RelOf(c, f) == relpath(f, c.repo_dir)

\* the lines of the files of S, and of those among them of language l
LinesOf(S) == SumOver([f \in S |-> CountLinesOf(f)], S)

LinesOfLang(c, S, l) == LinesOf({f \in S : LangOf(c, f) = l})

\* the directories strictly between the scan root and the file or directory p
AncestorsBelowRoot(p) == {SubSeq(p, 1, k) : k \in 2..(Len(p) - 1)}

\* the same, the scan root included
Ancestors(p) == {SubSeq(p, 1, k) : k \in 1..(Len(p) - 1)}

\* the relative path of p matches one of the patterns ps
MatchesAny(c, p, ps) == \E i \in 1..Len(ps) : fnmatch(RelOf(c, p), ps[i])

\* the directory d is excluded: by its name, or by a pattern on its relative path
DirExcluded(c, d) ==
    d[Len(d)] \in exclude_dirs \/ MatchesAny(c, d, c.exclude_patterns.pats)

\* the accumulators are between two files (not inside lines 131-137)
Settled == pc \notin {"acc_total", "record"}

Failing == fs.fail.open \cup fs.fail.read

\* ------------------------------------------------------------------------
\* C1
\* ------------------------------------------------------------------------

\* C1: total_lines equals the sum of the values of stats whenever a file's
\* accumulation step (lines 131-132) is complete, and in every returned result
C1_TotalIsSum ==
    /\ pc # "acc_total" => total_lines = SumValues(stats)
    /\ \A i \in 1..Len(results) :
            results[i].total_lines = SumValues(results[i].stats)

\* a scan that skipped a failing file and counted lines in two languages
C1_Witness ==
    /\ pc = "returned"
    /\ Len(stats) >= 2
    /\ total_lines > 0
    /\ opened \ counted # {}
    /\ cfg.exclude_patterns.pats # <<>>

\* ------------------------------------------------------------------------
\* C2
\* ------------------------------------------------------------------------

\* the per-file breakdown r.file_stats agrees with r.stats and r.counted
BreakdownAgrees(r) ==
    /\ DOMAIN r.file_stats = Keys(r.stats)
    /\ \A l \in Keys(r.stats) :
        LET files == {f \in r.counted : LangOf(r.cfg, f) = l}
            entries == r.file_stats[l]
        IN  /\ Get(r.stats, l) = SumOver(entries, DOMAIN entries)
            /\ DOMAIN entries = {RelOf(r.cfg, f) : f \in files}
            /\ \A f \in files :
                /\ entries[RelOf(r.cfg, f)] = CountLinesOf(f)
                /\ \A g \in files : RelOf(r.cfg, f) = RelOf(r.cfg, g) => f = g

\* C2: in a verbose scan's result, every language total is the sum of that
\* language's per-file entries, and the entries are exactly the counted files,
\* one each, keyed by the path relative to the root
C2_BreakdownSums ==
    \A i \in 1..Len(results) :
        results[i].cfg.verbose => BreakdownAgrees(results[i])

\* a verbose result holding two files of one language with the same base name
C2_Witness ==
    /\ pc = "returned"
    /\ cfg.verbose
    /\ {join(cfg.repo_dir, f_a_py), join(join(cfg.repo_dir, n_src), f_a_py)}
            \subseteq counted
    /\ Cardinality(DOMAIN file_stats) >= 2

\* ------------------------------------------------------------------------
\* C3
\* ------------------------------------------------------------------------

\* the files the scan has touched in any way
Touched == enumerated \cup opened \cup counted \cup handles

\* every directory is tested once, and before os.walk descends into it
CheckedOnceBeforeDescent ==
    /\ \A i, j \in 1..Len(checked) : checked[i] = checked[j] => i = j
    /\ \A d \in (Range(stack) \cup {cur_root}) \ {cfg.repo_dir, <<>>} :
            d \in Range(checked)

\* nothing but counted files is in the results
OnlyCountedInResults ==
    Settled =>
        /\ total_lines = LinesOf(counted)
        /\ Keys(stats) = {LangOf(cfg, f) : f \in counted}
        /\ \A l \in DOMAIN file_stats :
                DOMAIN file_stats[l] \subseteq {RelOf(cfg, f) : f \in counted}

\* C3 as stated: below an excluded directory, the scan root included,
\* no file is enumerated, opened or counted
C3_PrunedEverywhere ==
    pc # "idle" =>
        \A f \in Touched : \A d \in Ancestors(f) : ~DirExcluded(cfg, d)

\* C3, amended: every directory other than the scan root is tested once, before
\* the descent, and below one that is excluded (by the denylist or by a
\* pattern) no file is enumerated, opened or counted, or is in the results
C3_PrunedBelowRoot ==
    pc # "idle" =>
        /\ CheckedOnceBeforeDescent
        /\ \A f \in Touched : \A d \in AncestorsBelowRoot(f) : ~DirExcluded(cfg, d)
        /\ OnlyCountedInResults

\* a finished scan that pruned a denylisted directory and one matching a
\* pattern, and counted files elsewhere
C3_Witness ==
    /\ pc = "returned"
    /\ counted # {}
    /\ \E d \in Range(checked) : d[Len(d)] \in exclude_dirs
    /\ \E d \in Range(checked) :
            /\ d[Len(d)] \notin exclude_dirs
            /\ MatchesAny(cfg, d, cfg.exclude_patterns.pats)

\* ------------------------------------------------------------------------
\* C4
\* ------------------------------------------------------------------------

\* the scan b was made with the arguments of the scan a and the pattern q added
AddsPattern(a, b, q) ==
    /\ b.cfg.exclude_patterns.pats = Append(a.cfg.exclude_patterns.pats, q)
    /\ b.cfg = [a.cfg EXCEPT !.exclude_patterns = b.cfg.exclude_patterns]

\* the result b is the result a without the contributions of the files of gone
WithoutContributions(a, b, gone) ==
    /\ b.counted = a.counted \ gone
    /\ b.total_lines = a.total_lines - LinesOf(gone)
    /\ Keys(b.stats) = {LangOf(b.cfg, f) : f \in b.counted}
    /\ \A l \in Keys(b.stats) :
            Get(b.stats, l) = Get(a.stats, l) - LinesOfLang(a.cfg, gone, l)
    /\ b.cfg.verbose =>
        /\ DOMAIN b.file_stats = Keys(b.stats)
        /\ \A l \in DOMAIN b.file_stats :
            /\ DOMAIN b.file_stats[l] =
                    DOMAIN a.file_stats[l] \ {RelOf(a.cfg, f) : f \in gone}
            /\ \A k \in DOMAIN b.file_stats[l] :
                    b.file_stats[l][k] = a.file_stats[l][k]

\* the files that a scan without patterns counts: those with a mapped
\* extension that can be read and are below no denylisted directory
CountedWithoutPatterns(c) ==
    { f \in {c.repo_dir \o p : p \in DOMAIN FileLines} :
        /\ splitext(f[Len(f)]) \in DOMAIN language_extensions(c.include_docs)
        /\ Below(f) \notin Failing
        /\ \A d \in AncestorsBelowRoot(f) : d[Len(d)] \notin exclude_dirs }

\* an empty or absent pattern list excludes nothing
NoPatternExcludesNothing ==
    \A i \in 1..Len(results) :
        (results[i].cfg.exclude_patterns.pats = <<>> /\ scandir_ok(results[i].cfg.repo_dir))
            => results[i].counted = CountedWithoutPatterns(results[i].cfg)

\* C4 as stated: the added pattern removes the files whose relative path it
\* matches and the files below any directory whose relative path it matches
C4_PatternRemovesAnySubtree ==
    pc = "returned" =>
        \A i, j \in 1..Len(results) : \A q \in AddPool :
            AddsPattern(results[i], results[j], q) =>
                WithoutContributions(results[i], results[j],
                    { f \in results[i].counted :
                        \/ fnmatch(RelOf(results[i].cfg, f), q)
                        \/ \E d \in Ancestors(f) : fnmatch(RelOf(results[i].cfg, d), q) })

\* C4, amended: the added pattern removes the contributions of exactly the
\* files whose relative path it matches and of the files below a directory,
\* other than the scan root, whose relative path it matches; all other
\* contributions are unchanged; without patterns nothing is excluded
C4_PatternRemovesExactly ==
    pc = "returned" =>
        /\ NoPatternExcludesNothing
        /\ \A i, j \in 1..Len(results) : \A q \in AddPool :
            AddsPattern(results[i], results[j], q) =>
                WithoutContributions(results[i], results[j],
                    { f \in results[i].counted :
                        \/ fnmatch(RelOf(results[i].cfg, f), q)
                        \/ \E d \in AncestorsBelowRoot(f) :
                                fnmatch(RelOf(results[i].cfg, d), q) })

\* a second scan whose added pattern matches the directory src alone: the two
\* files below it are gone, the file a.py of the root is still counted
C4_Witness ==
    /\ pc = "returned"
    /\ Len(results) >= 2
    /\ AddsPattern(results[Len(results) - 1], results[Len(results)], n_src)
    /\ Cardinality(results[Len(results) - 1].counted \ counted) = 2
    /\ join(cfg.repo_dir, f_a_py) \in counted

\* ------------------------------------------------------------------------
\* C5
\* ------------------------------------------------------------------------

DocLanguages == {doc_extensions[e] : e \in DOMAIN doc_extensions}

\* the scan b was made with the arguments of the scan a, but with include_docs
WithDocs(a, b) ==
    /\ ~a.cfg.include_docs
    /\ b.cfg = [a.cfg EXCEPT !.include_docs = TRUE]

\* C5: with documentation included the total does not decrease, every language
\* of the scan without documentation keeps its count, and the languages that
\* appear are documentation languages
C5_DocsOnlyAdd ==
    pc = "returned" =>
        \A i, j \in 1..Len(results) :
            WithDocs(results[i], results[j]) =>
                /\ results[j].total_lines >= results[i].total_lines
                /\ \A l \in Keys(results[i].stats) :
                    /\ l \in Keys(results[j].stats)
                    /\ Get(results[j].stats, l) = Get(results[i].stats, l)
                /\ Keys(results[j].stats) \ Keys(results[i].stats) \subseteq DocLanguages

\* a pair of scans in which documentation added a language and lines
C5_Witness ==
    /\ pc = "returned"
    /\ Len(results) >= 2
    /\ WithDocs(results[Len(results) - 1], results[Len(results)])
    /\ "Markdown" \in Keys(stats)
    /\ total_lines > results[Len(results) - 1].total_lines
    /\ results[Len(results) - 1].total_lines > 0

\* ------------------------------------------------------------------------
\* C6
\* ------------------------------------------------------------------------

\* the file f is in scope of the running scan
InScope(f) ==
    /\ ~MatchesAny(cfg, f, cfg.exclude_patterns.pats)
    /\ splitext(f[Len(f)]) \in DOMAIN language_extensions(cfg.include_docs)

\* C6: a file that cannot be opened or read leaves stats, total_lines and
\* file_stats as they were when it was taken up, adds no entry (not even an
\* empty one), and the scan goes on to the remaining files and returns
C6_FailedFileLeavesNoTrace ==
    pc # "idle" =>
        /\ (/\ file_path \in opened
            /\ Below(file_path) \in Failing
            /\ pc \in {"count", "except", "files"})
                => Accumulators(stats, total_lines, file_stats) = before
        /\ \A f \in opened : Below(f) \in Failing => f \notin counted
        /\ OnlyCountedInResults
        /\ pc = "returned" =>
                \A f \in enumerated : (InScope(f) /\ Below(f) \notin Failing) => f \in counted

\* a finished scan in which a file failed that is the only one of its language,
\* and files enumerated after it were counted
C6_Witness ==
    /\ pc = "returned"
    /\ cfg.include_docs
    /\ join(cfg.repo_dir, f_r_md) \in opened \ counted
    /\ join(join(cfg.repo_dir, n_src), f_a_py) \in counted

\* ------------------------------------------------------------------------
\* C7
\* ------------------------------------------------------------------------

\* C7 as stated: a scan whose root is missing or unreadable does not return a
\* result; the failure reaches the caller
C7_RootFailureSurfaces ==
    pc = "returned" => scandir_ok(cfg.repo_dir)

\* ------------------------------------------------------------------------
\* C8
\* ------------------------------------------------------------------------

\* C8: at most one file is open; it is the current file, inside the with
\* block; no file is open between two files, in the handler or after the return
C8_OneHandle ==
    /\ Cardinality(handles) <= 1
    /\ handles # {} =>
        /\ handles = {file_path}
        /\ pc \in {"count", "acc_stats", "acc_total", "record", "close"}

\* a finished scan that opened several files, one of which failed while read
C8_Witness ==
    /\ pc = "returned"
    /\ Cardinality(opened) >= 3
    /\ \E f \in opened : Below(f) \in fs.fail.read
    /\ handles = {}

\* ------------------------------------------------------------------------
\* C9
\* ------------------------------------------------------------------------

\* C9 as stated: print_stats never divides by zero
C9_NoDivisionByZero ==
    exc # "ZeroDivisionError"

\* ------------------------------------------------------------------------
\* C10
\* ------------------------------------------------------------------------

====
